---------------------------- MODULE Spec2Model ----------------------------
(***************************************************************************)
(* KustoIngestClient (azure-kusto-ingest, _kusto_ingest_client.py).        *)
(*                                                                         *)
(* The client stages local data in blob storage and publishes one queue    *)
(* message per blob.  The model follows the three entry points             *)
(* ingest_from_dataframe, ingest_from_files and ingest_from_blobs step by  *)
(* step: every call of a collaborator that does I/O (the resource manager, *)
(* the blob service, the queue service, the local file system) is one      *)
(* atomic action, and several calls on the same client object may run      *)
(* concurrently on the caller's threads.                                   *)
(*                                                                         *)
(* _ResourceManager, _IngestionBlobInfo and FileDescriptor are imported by *)
(* the client but their code is not part of the sources at hand; they are  *)
(* modelled from the specification (sections 3, 4.1, 4.2 and 6).           *)
(***************************************************************************)
EXTENDS Integers, Sequences, FiniteSets, TLC

(***************************************************************************)
(* Bounds of the model.                                                    *)
(***************************************************************************)
\* Longest list of files or blobs handed to one call.
MaxItems == 2
\* The clock (whole seconds, as int(time.time()) reads it) stops here.
MaxTime == 2
\* Time-to-live of the resource cache, in clock ticks (configurable, sec. 4.2).
TTL == 1

\* The calls made on the one client object; they may overlap in time.
Calls == {1, 2}
\* Names of the files (or, for ingest_from_blobs, of the caller's blobs): a
\* list may name the same file several times.
Files == {"A"}
\* The ingestion properties a caller may pass: database and table.
IngestionProps == { [database |-> "db1", table |-> "t1"] }
\* Object names of the containers and queues the resource authority provides.
ContainerNames == {"c1", "c2"}
QueueNames == {"q1", "q2"}

VARIABLES
    now,        \* time.time(), in whole seconds
    cache,      \* _ResourceManager: the cached resource snapshot
    fetches,    \* number of snapshots the resource authority has issued
    inflight,   \* _ResourceManager: the calls whose remote fetch is in flight
    storage,    \* blob storage: (container, blob name) -> content
    messages,   \* the messages on the queues: the put_message calls that succeeded
    tmp,        \* the temp directory: path -> content of the file
    call,       \* per call: its arguments, locals and position in the code
    attempts,   \* history: per call, the I/O operations it attempted
    outcome,    \* per call: what the caller of the entry point got
    wire        \* the encoding of a message's content, followed on its own

vars == <<now, cache, fetches, inflight, storage, messages, tmp, call, attempts,
          outcome, wire>>

(***************************************************************************)
(* Values.                                                                 *)
(***************************************************************************)
\* os.getpid(): every call on the client object runs in the same process.
Getpid == "pid"

\* 'df_{timestamp}_{pid}.csv.gz' in tempfile.gettempdir()
TempFilePath(timestamp, pid) == [timestamp |-> timestamp, pid |-> pid]

\* "{db}__{table}__{guid}__{file}"
BlobName(props, guid, file) ==
    [db |-> props.database, table |-> props.table, guid |-> guid, file |-> file]

\* The size of a descriptor: a function of the data it wraps.
SizeOf(data) == [size_of |-> data]

\* blob_service.make_blob_url(container, blob_name, sas_token)
MakeBlobUrl(container_details, blob_name) ==
    [container |-> container_details.object_name,
     blob_name |-> blob_name,
     sas_token |-> container_details.sas]

\* A BlobDescriptor the caller of ingest_from_blobs supplies: a blob that is
\* already in some storage of the caller's.
CallerBlob(f) == [url |-> [external |-> f], size |-> SizeOf(f)]

\* uuid.uuid4(): a value no other evaluation yields, here the n-th one
\* generated by call c.
Uuid4(c, n) == [by |-> c, n |-> n]

(***************************************************************************)
(* _ResourceManager (modelled from the specification).  One remote fetch   *)
(* returns a ResourceSet: the containers, the queues and the authorization *)
(* context, with the time of the fetch.  The SAS tokens and the            *)
(* authorization context are issued per fetch, so they identify it.        *)
(***************************************************************************)
NoSnapshot == [id |-> 0, fetchedAt |-> -1]

ContainersOf(id) == { [object_name |-> n, sas |-> id] : n \in ContainerNames }
QueuesOf(id) == { [object_name |-> n, sas |-> id] : n \in QueueNames }
AuthorizationContextOf(id) == [token |-> id]

\* A variant of Stale that takes a value whose age has reached the TTL for
\* expired already.
StaleAtTTL == cache.fetchedAt < 0 \/ now - cache.fetchedAt >= TTL

\* The cached value is absent or its age exceeds the TTL.
Stale == cache.fetchedAt < 0 \/ now - cache.fetchedAt > TTL

\* The snapshot a successful remote fetch puts in the cache.
Refreshed == [id |-> fetches + 1, fetchedAt |-> now]

(***************************************************************************)
(* Outcomes.  The client catches nothing: an exception raised by a         *)
(* collaborator reaches the caller of the entry point as it was raised.    *)
(***************************************************************************)
Pending == [status |-> "pending"]
Returned == [status |-> "returned"]
Raised(error, operation) == [status |-> "raised", error |-> error, raisedBy |-> operation]

(***************************************************************************)
(* Initial state: a new client, no call made yet.                          *)
(***************************************************************************)
\* uuids counts the uuid.uuid4() values the call has generated.
Idle ==
    [pc |-> "idle", kind |-> "none", props |-> [database |-> "", table |-> ""],
     files |-> <<>>, blobs |-> <<>>, idx |-> 0,
     containers |-> {}, queues |-> {},
     authorization_context |-> AuthorizationContextOf(0),
     temp_file_path |-> TempFilePath(-1, Getpid),
     blob_name |-> BlobName([database |-> "", table |-> ""], 0, ""),
     size |-> SizeOf(""),
     uuids |-> 0]

\* History of a call: how often it attempted the upload and the publish of
\* each item, and the step that failed, if one did.
NoFailure == [stage |-> "none", item |-> 0]
\* accessed counts the calls of each accessor of the resource manager.
NoAccess == [get_containers |-> 0, get_ingestion_queues |-> 0, get_authorization_context |-> 0]
NoAttempts == [upload |-> <<>>, publish |-> <<>>, failure |-> NoFailure, accessed |-> NoAccess]
Zeros(n) == [i \in 1..n |-> 0]

\* No message content is being encoded.
NoWire == [stage |-> "none"]

Init ==
    /\ now = 0
    /\ cache = NoSnapshot
    /\ fetches = 0
    /\ inflight = {}
    /\ storage = <<>>
    /\ messages = {}
    /\ tmp = <<>>
    /\ call = [c \in Calls |-> Idle]
    /\ attempts = [c \in Calls |-> NoAttempts]
    /\ outcome = [c \in Calls |-> Pending]
    /\ wire = NoWire


(***************************************************************************)
(* Helpers of the actions.                                                 *)
(***************************************************************************)
Goto(c, pc) == call' = [call EXCEPT ![c].pc = pc]

\* An exception leaves the entry point: the call is over.
Raise(c, error, operation, stage, item) ==
    /\ outcome' = [outcome EXCEPT ![c] = Raised(error, operation)]
    /\ attempts' = [attempts EXCEPT ![c].failure = [stage |-> stage, item |-> item]]

\* The places of the client's code where it calls an accessor.
AccessorCalls == {"get_containers", "get_queues", "get_authorization_context"}

\* An accessor raises ResourceUnavailable, which leaves the entry point.
RaiseFrom(c, accessor, stage, item) ==
    /\ outcome' = [outcome EXCEPT ![c] = Raised("ResourceUnavailable", accessor)]
    /\ attempts' = [attempts EXCEPT
           ![c].failure = [stage |-> stage, item |-> item],
           ![c].accessed[accessor] = @ + 1]

\* An accessor of the resource manager returns to call c: from the cache when
\* the cached value is still valid, otherwise when the remote fetch that c
\* issued has succeeded and replaced the cached snapshot.
ResourceRead(c) ==
    \/ /\ ~Stale
       /\ c \notin inflight
       /\ UNCHANGED <<cache, fetches, inflight>>
    \/ /\ c \in inflight
       /\ cache' = Refreshed
       /\ fetches' = fetches + 1
       /\ inflight' = inflight \ {c}

\* The remote fetch that c issued fails: the accessor raises
\* ResourceUnavailable and the cache stays as it was.
ResourceFetchFails(c) ==
    /\ c \in inflight
    /\ inflight' = inflight \ {c}
    /\ UNCHANGED <<cache, fetches>>

\* Where ingest_from_blobs returns to.
AfterIngestFromBlobs(c) == IF call[c].kind = "dataframe" THEN "unlink" ELSE "done"

SeqsUpTo(S, n) == UNION { [1..k -> S] : k \in 0..n }

RemoveKey(f, k) == [x \in DOMAIN f \ {k} |-> f[x]]

(***************************************************************************)
(* The clock.                                                              *)
(***************************************************************************)
Tick ==
    /\ now < MaxTime
    /\ now' = now + 1
    /\ UNCHANGED <<wire, cache, fetches, inflight, storage, messages, tmp, call, attempts, outcome>>

(***************************************************************************)
(* _ResourceManager: the refresh.  A call that is in an accessor and finds *)
(* the cached snapshot absent or older than the TTL issues the remote      *)
(* fetch, unless a fetch is in flight already: then it waits for that one  *)
(* and takes its result from the cache.                                    *)
(***************************************************************************)
\* A variant of StartFetch without the coordination: a call that finds the
\* cache stale issues its own fetch although one is in flight.
StartFetchUncoordinated(c) ==
    /\ call[c].pc \in AccessorCalls
    /\ Stale
    /\ c \notin inflight
    /\ inflight' = inflight \cup {c}
    /\ UNCHANGED <<wire, now, cache, fetches, storage, messages, tmp, call, attempts, outcome>>

StartFetch(c) ==
    /\ call[c].pc \in AccessorCalls
    /\ Stale
    /\ inflight = {}
    /\ inflight' = {c}
    /\ UNCHANGED <<wire, now, cache, fetches, storage, messages, tmp, call, attempts, outcome>>

(***************************************************************************)
(* ingest_from_files, lines 83-129.                                        *)
(***************************************************************************)
\* The call is made: blobs and file_descriptors are empty lists.
IngestFromFiles(c, files, ingestion_properties) ==
    /\ call[c].pc = "idle"
    /\ call' = [call EXCEPT ![c] =
           [Idle EXCEPT !.pc = "get_containers", !.kind = "files",
                        !.props = ingestion_properties, !.files = files]]
    /\ attempts' = [attempts EXCEPT ![c] =
           [NoAttempts EXCEPT !.upload = Zeros(Len(files)), !.publish = Zeros(Len(files))]]
    /\ UNCHANGED <<wire, now, cache, fetches, inflight, storage, messages, tmp, outcome>>

\* containers = self._resource_manager.get_containers()  (lines 50 and 92)
GetContainers(c) ==
    /\ call[c].pc = "get_containers"
    /\ ResourceRead(c)
    /\ call' = [call EXCEPT
           ![c].containers = ContainersOf(cache'.id),
           ![c].pc = IF call[c].kind = "files" /\ Len(call[c].files) = 0
                     THEN "get_queues" ELSE "upload"]
    /\ attempts' = [attempts EXCEPT ![c].accessed.get_containers = @ + 1]
    /\ UNCHANGED <<wire, now, storage, messages, tmp, outcome>>

GetContainersFails(c) ==
    /\ call[c].pc = "get_containers"
    /\ ResourceFetchFails(c)
    /\ Goto(c, "raised")
    /\ RaiseFrom(c, "get_containers", "resource", 0)
    /\ UNCHANGED <<wire, now, storage, messages, tmp>>

\* A variant of UploadFile that chooses the container once for the batch:
\* after the first file, only the container of the first blob is taken.
UploadFilePerBatch(c, container_details) ==
    LET item == Len(call[c].blobs) + 1
        file == call[c].files[item]
        blob_name == BlobName(call[c].props, Uuid4(c, call[c].uuids + 1), file)
        url == MakeBlobUrl(container_details, blob_name)
    IN  /\ call[c].pc = "upload"
        /\ call[c].kind = "files"
        /\ container_details \in call[c].containers
        /\ item > 1 => container_details.object_name = call[c].blobs[1].url.container
        /\ storage' = ([container |-> container_details.object_name,
                        blob_name |-> blob_name] :> [file |-> file]) @@ storage
        /\ call' = [call EXCEPT
               ![c].blobs = Append(@, [url |-> url, size |-> SizeOf(file)]),
               ![c].uuids = @ + 1,
               ![c].pc = IF item = Len(call[c].files) THEN "get_queues" ELSE "upload"]
        /\ attempts' = [attempts EXCEPT ![c].upload[item] = @ + 1]
        /\ UNCHANGED <<wire, now, cache, fetches, inflight, messages, tmp, outcome>>

\* A variant of UploadFile that generates the uuid once for the batch.
UploadFileUuidPerBatch(c, container_details) ==
    LET item == Len(call[c].blobs) + 1
        file == call[c].files[item]
        blob_name == BlobName(call[c].props, Uuid4(c, 1), file)
        url == MakeBlobUrl(container_details, blob_name)
    IN  /\ call[c].pc = "upload"
        /\ call[c].kind = "files"
        /\ container_details \in call[c].containers
        /\ storage' = ([container |-> container_details.object_name,
                        blob_name |-> blob_name] :> [file |-> file]) @@ storage
        /\ call' = [call EXCEPT
               ![c].blobs = Append(@, [url |-> url, size |-> SizeOf(file)]),
               ![c].uuids = @ + 1,
               ![c].pc = IF item = Len(call[c].files) THEN "get_queues" ELSE "upload"]
        /\ attempts' = [attempts EXCEPT ![c].upload[item] = @ + 1]
        /\ UNCHANGED <<wire, now, cache, fetches, inflight, messages, tmp, outcome>>

\* A variant of UploadFile that builds the descriptor's URL with a name of
\* its own, not the name the blob was created under.
UploadFileOtherUrl(c, container_details) ==
    LET item == Len(call[c].blobs) + 1
        file == call[c].files[item]
        blob_name == BlobName(call[c].props, Uuid4(c, call[c].uuids + 1), file)
        other_name == BlobName(call[c].props, Uuid4(c, call[c].uuids + 2), file)
        url == MakeBlobUrl(container_details, other_name)
    IN  /\ call[c].pc = "upload"
        /\ call[c].kind = "files"
        /\ container_details \in call[c].containers
        /\ storage' = ([container |-> container_details.object_name,
                        blob_name |-> blob_name] :> [file |-> file]) @@ storage
        /\ call' = [call EXCEPT
               ![c].blobs = Append(@, [url |-> url, size |-> SizeOf(file)]),
               ![c].uuids = @ + 2,
               ![c].pc = IF item = Len(call[c].files) THEN "get_queues" ELSE "upload"]
        /\ attempts' = [attempts EXCEPT ![c].upload[item] = @ + 1]
        /\ UNCHANGED <<wire, now, cache, fetches, inflight, messages, tmp, outcome>>

\* A variant of UploadFile that publishes the message of a file as soon as
\* the file is uploaded, on a queue of the cached snapshot.
UploadFileThenPublish(c, container_details) ==
    LET item == Len(call[c].blobs) + 1
        file == call[c].files[item]
        blob_name == BlobName(call[c].props, Uuid4(c, call[c].uuids + 1), file)
        url == MakeBlobUrl(container_details, blob_name)
        blob == [url |-> url, size |-> SizeOf(file)]
        queue_details == CHOOSE q \in QueuesOf(cache.id) : TRUE
    IN  /\ call[c].pc = "upload"
        /\ call[c].kind = "files"
        /\ container_details \in call[c].containers
        /\ storage' = ([container |-> container_details.object_name,
                        blob_name |-> blob_name] :> [file |-> file]) @@ storage
        /\ messages' = messages \cup
               {[queue |-> queue_details,
                 info |-> [BlobPath |-> url, RawDataSize |-> blob.size],
                 call |-> c, item |-> item]}
        /\ call' = [call EXCEPT
               ![c].blobs = Append(@, blob),
               ![c].uuids = @ + 1,
               ![c].pc = IF item = Len(call[c].files) THEN "done" ELSE "upload"]
        /\ attempts' = [attempts EXCEPT ![c].upload[item] = @ + 1]
        /\ UNCHANGED <<wire, now, cache, fetches, inflight, tmp, outcome>>

\* A variant of UploadFile that asks the resource manager's cache for the
\* containers again in every turn of the loop.
UploadFileRefreshed(c, container_details) ==
    LET item == Len(call[c].blobs) + 1
        file == call[c].files[item]
        blob_name == BlobName(call[c].props, Uuid4(c, call[c].uuids + 1), file)
        current == [object_name |-> container_details.object_name, sas |-> cache.id]
        url == MakeBlobUrl(current, blob_name)
    IN  /\ call[c].pc = "upload"
        /\ call[c].kind = "files"
        /\ container_details \in call[c].containers
        /\ storage' = ([container |-> current.object_name,
                        blob_name |-> blob_name] :> [file |-> file]) @@ storage
        /\ call' = [call EXCEPT
               ![c].blobs = Append(@, [url |-> url, size |-> SizeOf(file)]),
               ![c].uuids = @ + 1,
               ![c].pc = IF item = Len(call[c].files) THEN "get_queues" ELSE "upload"]
        /\ attempts' = [attempts EXCEPT ![c].upload[item] = @ + 1]
        /\ UNCHANGED <<wire, now, cache, fetches, inflight, messages, tmp, outcome>>

\* One turn of the loop over the files (lines 94-124) whose upload succeeds:
\* a fresh uuid names the blob, container_details is the container chosen
\* for this file, the blob is created and its descriptor appended.
UploadFile(c, container_details) ==
    LET item == Len(call[c].blobs) + 1
        file == call[c].files[item]
        blob_name == BlobName(call[c].props, Uuid4(c, call[c].uuids + 1), file)
        url == MakeBlobUrl(container_details, blob_name)
    IN  /\ call[c].pc = "upload"
        /\ call[c].kind = "files"
        /\ container_details \in call[c].containers
        /\ storage' = ([container |-> container_details.object_name,
                        blob_name |-> blob_name] :> [file |-> file]) @@ storage
        /\ call' = [call EXCEPT
               ![c].blobs = Append(@, [url |-> url, size |-> SizeOf(file)]),
               ![c].uuids = @ + 1,
               ![c].pc = IF item = Len(call[c].files) THEN "get_queues" ELSE "upload"]
        /\ attempts' = [attempts EXCEPT ![c].upload[item] = @ + 1]
        /\ UNCHANGED <<wire, now, cache, fetches, inflight, messages, tmp, outcome>>

\* A variant of UploadFileFails that rolls the batch back: the blobs the call
\* has staged so far are deleted before the exception leaves.
UploadFileFailsRollback(c, container_details) ==
    LET item == Len(call[c].blobs) + 1
        kept == { k \in DOMAIN storage : k.blob_name.guid.by # c }
    IN  /\ call[c].pc = "upload"
        /\ call[c].kind = "files"
        /\ container_details \in call[c].containers
        /\ storage' = [k \in kept |-> storage[k]]
        /\ call' = [call EXCEPT ![c].uuids = @ + 1, ![c].pc = "raised"]
        /\ outcome' = [outcome EXCEPT ![c] = Raised("TransportError", "create_blob_from_stream")]
        /\ attempts' = [attempts EXCEPT
               ![c].upload[item] = @ + 1,
               ![c].failure = [stage |-> "stage", item |-> item]]
        /\ UNCHANGED <<wire, now, cache, fetches, inflight, messages, tmp>>

\* A variant of UploadFileFails that swallows the exception and lets the
\* loop try the same file again.
UploadFileFailsRetried(c, container_details) ==
    LET item == Len(call[c].blobs) + 1
    IN  /\ call[c].pc = "upload"
        /\ call[c].kind = "files"
        /\ container_details \in call[c].containers
        /\ call' = [call EXCEPT ![c].uuids = @ + 1]
        /\ attempts' = [attempts EXCEPT ![c].upload[item] = @ + 1]
        /\ UNCHANGED <<wire, now, cache, fetches, inflight, storage, messages, tmp, outcome>>

\* create_blob_from_stream raises: the exception leaves ingest_from_files.
UploadFileFails(c, container_details) ==
    LET item == Len(call[c].blobs) + 1
    IN  /\ call[c].pc = "upload"
        /\ call[c].kind = "files"
        /\ container_details \in call[c].containers
        /\ call' = [call EXCEPT ![c].uuids = @ + 1, ![c].pc = "raised"]
        /\ outcome' = [outcome EXCEPT ![c] = Raised("TransportError", "create_blob_from_stream")]
        /\ attempts' = [attempts EXCEPT
               ![c].upload[item] = @ + 1,
               ![c].failure = [stage |-> "stage", item |-> item]]
        /\ UNCHANGED <<wire, now, cache, fetches, inflight, storage, messages, tmp>>

(***************************************************************************)
(* ingest_from_blobs, lines 131-156; ingest_from_files and                 *)
(* ingest_from_dataframe end by calling it with the blobs they staged.     *)
(***************************************************************************)
IngestFromBlobs(c, blobs, ingestion_properties) ==
    /\ call[c].pc = "idle"
    /\ call' = [call EXCEPT ![c] =
           [Idle EXCEPT !.pc = "get_queues", !.kind = "blobs",
                        !.props = ingestion_properties, !.blobs = blobs]]
    /\ attempts' = [attempts EXCEPT ![c] =
           [NoAttempts EXCEPT !.publish = Zeros(Len(blobs))]]
    /\ UNCHANGED <<wire, now, cache, fetches, inflight, storage, messages, tmp, outcome>>

\* Leaving ingest_from_blobs: ingest_from_dataframe goes on to its cleanup,
\* the other entry points return.
ReturnFromBlobs(c) ==
    outcome' = [outcome EXCEPT ![c] =
                   IF call[c].kind = "dataframe" THEN @ ELSE Returned]

\* queues = self._resource_manager.get_ingestion_queues()  (line 139)
GetIngestionQueues(c) ==
    /\ call[c].pc = "get_queues"
    /\ ResourceRead(c)
    /\ call' = [call EXCEPT
           ![c].queues = QueuesOf(cache'.id),
           ![c].idx = 1,
           ![c].pc = IF Len(call[c].blobs) = 0
                     THEN AfterIngestFromBlobs(c) ELSE "get_authorization_context"]
    /\ IF Len(call[c].blobs) = 0 THEN ReturnFromBlobs(c) ELSE UNCHANGED outcome
    /\ attempts' = [attempts EXCEPT ![c].accessed.get_ingestion_queues = @ + 1]
    /\ UNCHANGED <<wire, now, storage, messages, tmp>>

GetIngestionQueuesFails(c) ==
    /\ call[c].pc = "get_queues"
    /\ ResourceFetchFails(c)
    /\ Goto(c, "raised")
    /\ RaiseFrom(c, "get_ingestion_queues", "resource", 0)
    /\ UNCHANGED <<wire, now, storage, messages, tmp>>

\* authorization_context = self._resource_manager.get_authorization_context()
\* (line 146), once in every turn of the loop over the blobs.
GetAuthorizationContext(c) ==
    /\ call[c].pc = "get_authorization_context"
    /\ ResourceRead(c)
    /\ call' = [call EXCEPT
           ![c].authorization_context = AuthorizationContextOf(cache'.id),
           ![c].pc = "put_message"]
    /\ attempts' = [attempts EXCEPT ![c].accessed.get_authorization_context = @ + 1]
    /\ UNCHANGED <<wire, now, storage, messages, tmp, outcome>>

GetAuthorizationContextFails(c) ==
    /\ call[c].pc = "get_authorization_context"
    /\ ResourceFetchFails(c)
    /\ Goto(c, "raised")
    /\ RaiseFrom(c, "get_authorization_context", "resource", call[c].idx)
    /\ UNCHANGED <<wire, now, storage, messages, tmp>>

\* _IngestionBlobInfo(blob, ingestion_properties, auth_context): the document
\* of section 6, with a fresh uuid as its Id.
IngestionBlobInfo(blob, ingestion_properties, auth_context, id) ==
    [BlobPath |-> blob.url,
     RawDataSize |-> blob.size,
     DatabaseName |-> ingestion_properties.database,
     TableName |-> ingestion_properties.table,
     AuthorizationContext |-> auth_context,
     Id |-> id]

\* A variant of PutMessage that goes on to the next blob without having put
\* the message on the queue.
PutMessageDropped(c, queue_details) ==
    LET item == call[c].idx
        last == item = Len(call[c].blobs)
    IN  /\ call[c].pc = "put_message"
        /\ queue_details \in call[c].queues
        /\ call' = [call EXCEPT
               ![c].idx = item + 1,
               ![c].uuids = @ + 1,
               ![c].pc = IF last THEN AfterIngestFromBlobs(c)
                         ELSE "get_authorization_context"]
        /\ attempts' = [attempts EXCEPT ![c].publish[item] = @ + 1]
        /\ IF last THEN ReturnFromBlobs(c) ELSE UNCHANGED outcome
        /\ UNCHANGED <<wire, now, cache, fetches, inflight, storage, messages, tmp>>

\* The rest of a turn of the loop (lines 143-156) when put_message succeeds:
\* queue_details is the queue chosen for this blob.  The message is recorded
\* with the call and the item it was published for.
PutMessage(c, queue_details) ==
    LET item == call[c].idx
        info == IngestionBlobInfo(call[c].blobs[item], call[c].props,
                                  call[c].authorization_context,
                                  Uuid4(c, call[c].uuids + 1))
        last == item = Len(call[c].blobs)
    IN  /\ call[c].pc = "put_message"
        /\ queue_details \in call[c].queues
        /\ messages' = messages \cup
               {[queue |-> queue_details, info |-> info, call |-> c, item |-> item]}
        /\ call' = [call EXCEPT
               ![c].idx = item + 1,
               ![c].uuids = @ + 1,
               ![c].pc = IF last THEN AfterIngestFromBlobs(c)
                         ELSE "get_authorization_context"]
        /\ attempts' = [attempts EXCEPT ![c].publish[item] = @ + 1]
        /\ IF last THEN ReturnFromBlobs(c) ELSE UNCHANGED outcome
        /\ UNCHANGED <<wire, now, cache, fetches, inflight, storage, tmp>>

\* A variant of PutMessageFails that swallows the exception and goes on to
\* the next blob.
PutMessageFailsSkips(c, queue_details) ==
    LET item == call[c].idx
        last == item = Len(call[c].blobs)
    IN  /\ call[c].pc = "put_message"
        /\ queue_details \in call[c].queues
        /\ call' = [call EXCEPT
               ![c].idx = item + 1,
               ![c].uuids = @ + 1,
               ![c].pc = IF last THEN AfterIngestFromBlobs(c)
                         ELSE "get_authorization_context"]
        /\ attempts' = [attempts EXCEPT ![c].publish[item] = @ + 1]
        /\ IF last THEN ReturnFromBlobs(c) ELSE UNCHANGED outcome
        /\ UNCHANGED <<wire, now, cache, fetches, inflight, storage, messages, tmp>>

\* put_message raises: the exception leaves ingest_from_blobs and its caller.
PutMessageFails(c, queue_details) ==
    LET item == call[c].idx
    IN  /\ call[c].pc = "put_message"
        /\ queue_details \in call[c].queues
        /\ call' = [call EXCEPT ![c].uuids = @ + 1, ![c].pc = "raised"]
        /\ outcome' = [outcome EXCEPT ![c] = Raised("TransportError", "put_message")]
        /\ attempts' = [attempts EXCEPT
               ![c].publish[item] = @ + 1,
               ![c].failure = [stage |-> "publish", item |-> item]]
        /\ UNCHANGED <<wire, now, cache, fetches, inflight, storage, messages, tmp>>

(***************************************************************************)
(* ingest_from_dataframe, lines 33-81.                                     *)
(***************************************************************************)
\* Lines 34-48: the temp file's name is built from the clock and the process
\* id, df.to_csv writes the file (replacing a file of that name), the
\* FileDescriptor takes its size and the blob's name gets a fresh uuid.
IngestFromDataframe(c, ingestion_properties) ==
    LET temp_file_path == TempFilePath(now, Getpid)
        data == [df |-> c]
    IN  /\ call[c].pc = "idle"
        /\ tmp' = (temp_file_path :> data) @@ tmp
        /\ call' = [call EXCEPT ![c] =
               [Idle EXCEPT !.pc = "get_containers", !.kind = "dataframe",
                            !.props = ingestion_properties,
                            !.temp_file_path = temp_file_path,
                            !.size = SizeOf(data),
                            !.uuids = 1,
                            !.blob_name = BlobName(ingestion_properties, Uuid4(c, 1),
                                                   temp_file_path)]]
        /\ attempts' = [attempts EXCEPT ![c] =
               [NoAttempts EXCEPT !.upload = Zeros(1), !.publish = Zeros(1)]]
        /\ UNCHANGED <<wire, now, cache, fetches, inflight, storage, messages, outcome>>

\* Lines 51-73: a container is chosen, create_blob_from_path uploads what the
\* file at temp_file_path holds now, and the blob's descriptor is appended.
UploadDataframe(c, container_details) ==
    LET url == MakeBlobUrl(container_details, call[c].blob_name)
    IN  /\ call[c].pc = "upload"
        /\ call[c].kind = "dataframe"
        /\ container_details \in call[c].containers
        /\ call[c].temp_file_path \in DOMAIN tmp
        /\ storage' = ([container |-> container_details.object_name,
                        blob_name |-> call[c].blob_name]
                            :> tmp[call[c].temp_file_path]) @@ storage
        /\ call' = [call EXCEPT
               ![c].blobs = Append(@, [url |-> url, size |-> call[c].size]),
               ![c].pc = "get_queues"]
        /\ attempts' = [attempts EXCEPT ![c].upload[1] = @ + 1]
        /\ UNCHANGED <<wire, now, cache, fetches, inflight, messages, tmp, outcome>>

\* create_blob_from_path raises: the transport fails, or the file is gone.
UploadDataframeFails(c, container_details) ==
    /\ call[c].pc = "upload"
    /\ call[c].kind = "dataframe"
    /\ container_details \in call[c].containers
    /\ \/ outcome' = [outcome EXCEPT ![c] =
              Raised("TransportError", "create_blob_from_path")]
       \/ /\ call[c].temp_file_path \notin DOMAIN tmp
          /\ outcome' = [outcome EXCEPT ![c] =
                 Raised("FileNotFoundError", "create_blob_from_path")]
    /\ Goto(c, "raised")
    /\ attempts' = [attempts EXCEPT
           ![c].upload[1] = @ + 1,
           ![c].failure = [stage |-> "stage", item |-> 1]]
    /\ UNCHANGED <<wire, now, cache, fetches, inflight, storage, messages, tmp>>

\* Lines 80-81, reached only when ingest_from_blobs returned: the descriptor
\* deletes the artifacts it created itself (none of them is the temp file)
\* and os.unlink removes the temp file.
Unlink(c) ==
    /\ call[c].pc = "unlink"
    /\ call[c].temp_file_path \in DOMAIN tmp
    /\ tmp' = RemoveKey(tmp, call[c].temp_file_path)
    /\ Goto(c, "done")
    /\ outcome' = [outcome EXCEPT ![c] = Returned]
    /\ UNCHANGED <<wire, now, cache, fetches, inflight, storage, messages, attempts>>

\* os.unlink raises when no file has that path any more.
UnlinkFails(c) ==
    /\ call[c].pc = "unlink"
    /\ call[c].temp_file_path \notin DOMAIN tmp
    /\ Goto(c, "raised")
    /\ Raise(c, "FileNotFoundError", "unlink", "cleanup", 1)
    /\ UNCHANGED <<wire, now, cache, fetches, inflight, storage, messages, tmp>>

(***************************************************************************)
(* The specification.                                                      *)
(***************************************************************************)
Next ==
    \/ Tick
    \/ \E c \in Calls : StartFetch(c)
    \/ \E c \in Calls, p \in IngestionProps :
          \/ \E files \in SeqsUpTo(Files, MaxItems) : IngestFromFiles(c, files, p)
          \/ \E fs \in SeqsUpTo(Files, MaxItems) :
                IngestFromBlobs(c, [i \in DOMAIN fs |-> CallerBlob(fs[i])], p)
          \/ IngestFromDataframe(c, p)
    \/ \E c \in Calls :
          \/ GetContainers(c)
          \/ GetContainersFails(c)
          \/ GetIngestionQueues(c)
          \/ GetIngestionQueuesFails(c)
          \/ GetAuthorizationContext(c)
          \/ GetAuthorizationContextFails(c)
          \/ Unlink(c)
          \/ UnlinkFails(c)
          \/ \E container_details \in call[c].containers : UploadFile(c, container_details)
          \/ \E container_details \in call[c].containers : UploadFileFails(c, container_details)
          \/ \E container_details \in call[c].containers : UploadDataframe(c, container_details)
          \/ \E container_details \in call[c].containers :
                UploadDataframeFails(c, container_details)
          \/ \E queue_details \in call[c].queues : PutMessage(c, queue_details)
          \/ \E queue_details \in call[c].queues : PutMessageFails(c, queue_details)

Spec == Init /\ [][Next]_vars

(***************************************************************************)
(* What the claims speak of.                                               *)
(***************************************************************************)
MessagesOf(c) == { m \in messages : m.call = c }

\* The URL is one make_blob_url built, not one the caller supplied.
IsStagedUrl(url) == "container" \in DOMAIN url

\* The items an outcome names.
ItemsNamed(o) == IF "item" \in DOMAIN o THEN {o.item} ELSE {}

\* The blobs call c has put in storage.
StagedBy(c) == { k \in DOMAIN storage : k.blob_name.guid.by = c }

\* The storage key of a staged blob's URL.
KeyOf(url) == [container |-> url.container, blob_name |-> url.blob_name]

\* The number of items of a call.
Items(c) == IF call[c].kind = "files" THEN Len(call[c].files) ELSE Len(call[c].blobs)

\* ingest_from_blobs has returned to its caller in call c.
Published(c) == call[c].pc \in {"unlink", "done"}

\* The pools the resource manager has returned so far.
QueuePools == { QueuesOf(id) : id \in 1..fetches }
ContainerPools == { ContainersOf(id) : id \in 1..fetches }

(***************************************************************************)
(* C1: when ingest_from_blobs has returned for N blobs, exactly N messages *)
(* of the call are on the queues, exactly one for each blob and carrying   *)
(* that blob's URL; each is on a queue of the pool the resource manager    *)
(* returned to the call, carries the database and the table of the call's  *)
(* ingestion properties, and no two messages have the same Id.             *)
(***************************************************************************)
C1_OneMessagePerBlob ==
    \A c \in Calls :
        Published(c) =>
            LET M == MessagesOf(c)
                N == Len(call[c].blobs)
            IN  /\ Cardinality(M) = N
                /\ \A i \in 1..N :
                      /\ Cardinality({ m \in M : m.item = i }) = 1
                      /\ \A m \in M : m.item = i =>
                            m.info.BlobPath = call[c].blobs[i].url
                /\ call[c].queues \in QueuePools
                /\ \A m \in M :
                      /\ m.queue \in call[c].queues
                      /\ m.info.DatabaseName = call[c].props.database
                      /\ m.info.TableName = call[c].props.table
                /\ \A m1, m2 \in messages : m1 # m2 => m1.info.Id # m2.info.Id

\* An ingest_from_blobs call for two blobs has returned, its two messages on
\* different queues, while the other call has published too.
C1_Witness ==
    \E c \in Calls :
        /\ call[c].kind = "blobs"
        /\ call[c].pc = "done"
        /\ Len(call[c].blobs) = 2
        /\ \E m1, m2 \in MessagesOf(c) : m1.queue # m2.queue
        /\ \E d \in Calls \ {c} : MessagesOf(d) # {}

(***************************************************************************)
(* C2: once an ingest_from_dataframe call has returned or raised, the temp *)
(* file it created no longer exists.                                       *)
(***************************************************************************)
C2_TempFileDeleted ==
    \A c \in Calls :
        (call[c].kind = "dataframe" /\ call[c].pc \in {"done", "raised"}) =>
            call[c].temp_file_path \notin DOMAIN tmp

(***************************************************************************)
(* C3: an ingest_from_files call that ends with ResourceUnavailable has    *)
(* attempted no upload and has no blob in storage.                         *)
(***************************************************************************)
C3_FetchFailsBeforeUpload ==
    \A c \in Calls :
        ( /\ call[c].kind = "files"
          /\ outcome[c].status = "raised"
          /\ outcome[c].error = "ResourceUnavailable" ) =>
            /\ \A i \in DOMAIN attempts[c].upload : attempts[c].upload[i] = 0
            /\ StagedBy(c) = {}

(***************************************************************************)
(* C4: when the publish of the message of an uploaded file fails in an     *)
(* ingest_from_files call, the outcome of the call is PublishFailed and    *)
(* names that file, and the file's blob is in storage.                     *)
(***************************************************************************)
C4_PublishFailedNamesItem ==
    \A c \in Calls :
        (call[c].kind = "files" /\ attempts[c].failure.stage = "publish") =>
            LET a == attempts[c].failure.item
            IN  /\ outcome[c].status = "raised"
                /\ outcome[c].error = "PublishFailed"
                /\ a \in ItemsNamed(outcome[c])
                /\ KeyOf(call[c].blobs[a].url) \in DOMAIN storage

(***************************************************************************)
(* C5: two failed ingest_from_files or ingest_from_blobs calls of several  *)
(* items that give their callers the same outcome failed in the same stage *)
(* and at the same item, and staged and published the same items.          *)
(***************************************************************************)
StagedItems(c) == { i \in DOMAIN attempts[c].upload : i <= Len(call[c].blobs) }
PublishedItems(c) == { m.item : m \in MessagesOf(c) }

C5_OutcomeTellsStageAndItem ==
    \A c1, c2 \in Calls :
        ( /\ call[c1].kind \in {"files", "blobs"}
          /\ call[c2].kind = call[c1].kind
          /\ Items(c1) >= 2
          /\ Items(c2) = Items(c1)
          /\ outcome[c1].status = "raised"
          /\ outcome[c2] = outcome[c1] ) =>
            /\ attempts[c1].failure = attempts[c2].failure
            /\ StagedItems(c1) = StagedItems(c2)
            /\ PublishedItems(c1) = PublishedItems(c2)

(***************************************************************************)
(* C6: no step deletes or changes a blob that is in storage, and when an   *)
(* ingest_from_files call has raised, the blobs it uploaded before the     *)
(* failure are in storage as they were uploaded.                           *)
(***************************************************************************)
BlobsKept ==
    \A k \in DOMAIN storage : k \in DOMAIN storage' /\ storage'[k] = storage[k]

StagedRemain ==
    \A c \in Calls :
        (call[c].kind = "files" /\ call[c].pc = "raised") =>
            \A i \in 1..Len(call[c].blobs) :
                /\ KeyOf(call[c].blobs[i].url) \in DOMAIN storage
                /\ storage[KeyOf(call[c].blobs[i].url)] = [file |-> call[c].files[i]]

C6_NoRollback == [][BlobsKept]_vars /\ []StagedRemain

\* The upload of the second file has failed and the first file's blob is there.
C6_Witness ==
    \E c \in Calls :
        /\ call[c].kind = "files"
        /\ attempts[c].failure = [stage |-> "stage", item |-> 2]
        /\ Len(call[c].blobs) = 1
        /\ KeyOf(call[c].blobs[1].url) \in DOMAIN storage

(***************************************************************************)
(* C7: a call attempts the upload of each file and the publish of each     *)
(* blob at most once; a failed upload, publish or resource fetch ends the  *)
(* call at once, with the exception of the failed operation as the outcome *)
(* its caller gets and nothing attempted for the items after it.           *)
(***************************************************************************)
RaisedBy(stage) ==
    CASE stage = "resource" ->
            {"get_containers", "get_ingestion_queues", "get_authorization_context"}
      [] stage = "stage" -> {"create_blob_from_stream", "create_blob_from_path"}
      [] stage = "publish" -> {"put_message"}
      [] stage = "cleanup" -> {"unlink"}

C7_NoSilentRetry ==
    \A c \in Calls :
        LET a == attempts[c]
            f == a.failure
        IN  /\ \A i \in DOMAIN a.upload : a.upload[i] <= 1
            /\ \A i \in DOMAIN a.publish : a.publish[i] <= 1
            /\ (f.stage # "none") <=> (call[c].pc = "raised")
            /\ (f.stage # "none") <=> (outcome[c].status = "raised")
            /\ f.stage # "none" => outcome[c].raisedBy \in RaisedBy(f.stage)
            /\ f.stage = "stage" =>
                  /\ \A i \in DOMAIN a.upload : i > f.item => a.upload[i] = 0
                  /\ \A i \in DOMAIN a.publish : a.publish[i] = 0
            /\ f.stage = "publish" =>
                  \A i \in DOMAIN a.publish : i > f.item => a.publish[i] = 0
            /\ f.stage = "resource" =>
                  /\ outcome[c].error = "ResourceUnavailable"
                  /\ \A i \in DOMAIN a.publish : i >= f.item /\ f.item > 0 => a.publish[i] = 0

\* The publish of the second blob of an ingest_from_files call has failed.
C7_Witness ==
    \E c \in Calls :
        /\ call[c].kind = "files"
        /\ attempts[c].failure = [stage |-> "publish", item |-> 2]
        /\ attempts[c].upload = <<1, 1>>
        /\ attempts[c].publish = <<1, 1>>
        /\ outcome[c] = Raised("TransportError", "put_message")

(***************************************************************************)
(* C8: for each file ingest_from_files can take any container of the list  *)
(* it got from the resource manager, whatever it took for the files        *)
(* before, and for each blob ingest_from_blobs can take any queue of its   *)
(* list; the containers and queues used are members of those lists, which  *)
(* are pools the resource manager returned.                                *)
(***************************************************************************)
C8_SelectionPerItem ==
    \A c \in Calls :
        /\ (call[c].kind = "files" /\ call[c].pc = "upload") =>
              /\ call[c].containers \in ContainerPools
              /\ \A k \in call[c].containers : ENABLED UploadFile(c, k)
        /\ call[c].pc = "put_message" =>
              /\ call[c].queues \in QueuePools
              /\ \A q \in call[c].queues : ENABLED PutMessage(c, q)
        /\ call[c].kind = "files" =>
              \A i \in 1..Len(call[c].blobs) :
                  \E k \in call[c].containers :
                      /\ call[c].blobs[i].url.container = k.object_name
                      /\ call[c].blobs[i].url.sas_token = k.sas
        /\ \A m \in MessagesOf(c) : m.queue \in call[c].queues

\* A batch of two files went to two different containers and its two
\* messages to two different queues.
C8_Witness ==
    \E c \in Calls :
        /\ call[c].kind = "files"
        /\ call[c].pc = "done"
        /\ Len(call[c].blobs) = 2
        /\ call[c].blobs[1].url.container # call[c].blobs[2].url.container
        /\ \E m1, m2 \in MessagesOf(c) :
              m1.item = 1 /\ m2.item = 2 /\ m1.queue.object_name # m2.queue.object_name

(***************************************************************************)
(* C9: the message of a blob the client staged combines resources of one   *)
(* refresh: the container's SAS token in the blob's URL, the queue the     *)
(* message is on and the authorization context in the message were all     *)
(* issued by the same fetch.                                               *)
(***************************************************************************)
C9_OneSnapshotPerCall ==
    \A m \in messages :
        IsStagedUrl(m.info.BlobPath) =>
            /\ m.info.BlobPath.sas_token = m.queue.sas
            /\ m.info.AuthorizationContext = AuthorizationContextOf(m.queue.sas)

(***************************************************************************)
(* C10: two ingest_from_dataframe calls that are under way at the same     *)
(* time have different temp file paths, and as long as a call has not      *)
(* reached the end of its cleanup its temp file exists and holds the data  *)
(* the call wrote.                                                         *)
(***************************************************************************)
UnderWay(c) ==
    /\ call[c].kind = "dataframe"
    /\ call[c].pc \notin {"idle", "done", "raised"}

C10_TempFilesIndependent ==
    /\ \A c1, c2 \in Calls :
          (c1 # c2 /\ UnderWay(c1) /\ UnderWay(c2)) =>
              call[c1].temp_file_path # call[c2].temp_file_path
    /\ \A c \in Calls :
          UnderWay(c) =>
              /\ call[c].temp_file_path \in DOMAIN tmp
              /\ tmp[call[c].temp_file_path] = [df |-> c]

(***************************************************************************)
(* C11: an accessor that returns while the cached snapshot is within its   *)
(* TTL returns it without a remote fetch, so all the accessor calls of one *)
(* TTL window share the one fetch that opened it; an accessor that returns *)
(* when the snapshot is absent or past its TTL returns after exactly one   *)
(* fetch, which resets the age; and no fetch is issued within the window.  *)
(***************************************************************************)
WithinWindow == cache.fetchedAt >= 0 /\ now - cache.fetchedAt <= TTL

\* This step is the return of an accessor to call c.
AccessorReturns(c) ==
    /\ call[c].pc \in AccessorCalls
    /\ call'[c].pc \notin {call[c].pc, "raised"}

TTLStep ==
    /\ \A c \in Calls :
          AccessorReturns(c) =>
              IF WithinWindow
              THEN fetches' = fetches /\ cache' = cache
              ELSE fetches' = fetches + 1 /\ cache' = [id |-> fetches + 1, fetchedAt |-> now]
    /\ fetches' # fetches => \E c \in Calls : AccessorReturns(c)
    /\ (inflight' # inflight /\ inflight' # {}) => ~WithinWindow

C11_TTLAmortizesFetches == [][TTLStep]_vars

\* One call got its containers and queues from the first fetch and, the TTL
\* having elapsed, an authorization context from the second: three accessor
\* calls, two fetches.
C11_Witness ==
    \E c \in Calls :
        /\ fetches = 2
        /\ call[c].pc = "put_message"
        /\ call[c].containers = ContainersOf(1)
        /\ call[c].queues = QueuesOf(1)
        /\ call[c].authorization_context = AuthorizationContextOf(2)
        /\ \A d \in Calls \ {c} : call[d].pc = "idle"

(***************************************************************************)
(* C12: at most one remote fetch is in flight; a call that finds the cache *)
(* stale while another call's fetch is in flight issues none and does not  *)
(* go on until that fetch is over; and whatever an accessor returns is the *)
(* snapshot in the cache, so the callers that waited get the snapshot the  *)
(* one fetch brought.                                                      *)
(***************************************************************************)
Waiting(c) ==
    /\ call[c].pc \in AccessorCalls
    /\ c \notin inflight
    /\ inflight # {}

\* What the accessor returned to call c in this step.
ReceivedSnapshot(c) ==
    CASE call[c].pc = "get_containers" -> call'[c].containers = ContainersOf(cache'.id)
      [] call[c].pc = "get_queues" -> call'[c].queues = QueuesOf(cache'.id)
      [] call[c].pc = "get_authorization_context" ->
            call'[c].authorization_context = AuthorizationContextOf(cache'.id)

OneFetch ==
    /\ Cardinality(inflight) <= 1
    /\ \A c \in inflight : call[c].pc \in AccessorCalls
    /\ \A c \in Calls : Waiting(c) => ~ENABLED StartFetch(c)

CoordinatedStep ==
    \A c \in Calls :
        /\ Waiting(c) => call'[c] = call[c]
        /\ AccessorReturns(c) =>
              /\ ReceivedSnapshot(c)
              /\ c \notin inflight => fetches' = fetches

MaxLen == 3

\* One code point of each length of UTF-8 encoding: A, e-acute, the euro
\* sign, an emoji.
CodePoints == {65, 233, 8364, 128512}

Documents == SeqsUpTo(CodePoints, MaxLen)

\* str.encode("utf-8") of one code point.
Utf8Bytes(cp) ==
    IF cp < 128 THEN <<cp>>
    ELSE IF cp < 2048 THEN <<192 + (cp \div 64), 128 + (cp % 64)>>
    ELSE IF cp < 65536
         THEN <<224 + (cp \div 4096), 128 + ((cp \div 64) % 64), 128 + (cp % 64)>>
    ELSE <<240 + (cp \div 262144), 128 + ((cp \div 4096) % 64),
           128 + ((cp \div 64) % 64), 128 + (cp % 64)>>

\* str.encode("utf-8") (line 153).
RECURSIVE Utf8Encode(_)
Utf8Encode(str) ==
    IF str = <<>> THEN <<>> ELSE Utf8Bytes(Head(str)) \o Utf8Encode(Tail(str))

\* bytes.decode("utf-8") (line 155, and the consumer's).
RECURSIVE Utf8Decode(_)
Utf8Decode(bytes) ==
    IF bytes = <<>> THEN <<>>
    ELSE LET b == Head(bytes)
             n == IF b < 128 THEN 1 ELSE IF b < 224 THEN 2 ELSE IF b < 240 THEN 3 ELSE 4
             cont(i) == bytes[i] % 64
             cp == CASE n = 1 -> b
                     [] n = 2 -> (b % 32) * 64 + cont(2)
                     [] n = 3 -> (b % 16) * 4096 + cont(2) * 64 + cont(3)
                     [] n = 4 -> (b % 8) * 262144 + cont(2) * 4096 + cont(3) * 64 + cont(4)
         IN  <<cp>> \o Utf8Decode(SubSeq(bytes, n + 1, Len(bytes)))

\* The ASCII code of the base64 digit of value v: A-Z, a-z, 0-9, + and /.
B64Char(v) ==
    IF v < 26 THEN 65 + v
    ELSE IF v < 52 THEN 71 + v
    ELSE IF v < 62 THEN v - 4
    ELSE IF v = 62 THEN 43 ELSE 47

\* The value of the base64 digit of ASCII code ch; the padding "=" counts 0.
B64Value(ch) ==
    IF ch >= 65 /\ ch <= 90 THEN ch - 65
    ELSE IF ch >= 97 /\ ch <= 122 THEN ch - 71
    ELSE IF ch >= 48 /\ ch <= 57 THEN ch + 4
    ELSE IF ch = 43 THEN 62
    ELSE IF ch = 47 THEN 63 ELSE 0

\* A variant of B64Encode that leaves the padding out.
RECURSIVE B64EncodeUnpadded(_)
B64EncodeUnpadded(bytes) ==
    IF bytes = <<>> THEN <<>>
    ELSE LET n == IF Len(bytes) < 3 THEN Len(bytes) ELSE 3
             b1 == bytes[1]
             b2 == IF n >= 2 THEN bytes[2] ELSE 0
             b3 == IF n >= 3 THEN bytes[3] ELSE 0
             digits == <<B64Char(b1 \div 4),
                         B64Char((b1 % 4) * 16 + (b2 \div 16)),
                         B64Char((b2 % 16) * 4 + (b3 \div 64)),
                         B64Char(b3 % 64)>>
         IN  SubSeq(digits, 1, n + 1) \o B64EncodeUnpadded(SubSeq(bytes, n + 1, Len(bytes)))

\* base64.b64encode (line 153): three bytes give four digits, and the last
\* group is padded with "=" to four.
RECURSIVE B64Encode(_)
B64Encode(bytes) ==
    IF bytes = <<>> THEN <<>>
    ELSE LET n == IF Len(bytes) < 3 THEN Len(bytes) ELSE 3
             b1 == bytes[1]
             b2 == IF n >= 2 THEN bytes[2] ELSE 0
             b3 == IF n >= 3 THEN bytes[3] ELSE 0
             digits == <<B64Char(b1 \div 4),
                         B64Char((b1 % 4) * 16 + (b2 \div 16)),
                         IF n >= 2 THEN B64Char((b2 % 16) * 4 + (b3 \div 64)) ELSE 61,
                         IF n >= 3 THEN B64Char(b3 % 64) ELSE 61>>
         IN  digits \o B64Encode(SubSeq(bytes, n + 1, Len(bytes)))

\* base64.b64decode of a text whose length is a multiple of four; 61 is the
\* ASCII code of the padding "=".
RECURSIVE B64Decode(_)
B64Decode(text) ==
    IF text = <<>> THEN <<>>
    ELSE LET v1 == B64Value(text[1])
             v2 == B64Value(text[2])
             v3 == B64Value(text[3])
             v4 == B64Value(text[4])
             n == IF text[3] = 61 THEN 1 ELSE IF text[4] = 61 THEN 2 ELSE 3
             group == <<v1 * 4 + (v2 \div 16), (v2 % 16) * 16 + (v3 \div 4), (v3 % 4) * 64 + v4>>
         IN  SubSeq(group, 1, n) \o B64Decode(SubSeq(text, 5, Len(text)))

Wire(stage, json, value) == [stage |-> stage, json |-> json, value |-> value]

\* to_json has returned the document (line 152).
InitEncode ==
    /\ now = 0
    /\ cache = NoSnapshot
    /\ fetches = 0
    /\ inflight = {}
    /\ storage = <<>>
    /\ messages = {}
    /\ tmp = <<>>
    /\ call = [c \in Calls |-> Idle]
    /\ attempts = [c \in Calls |-> NoAttempts]
    /\ outcome = [c \in Calls |-> Pending]
    /\ wire \in {Wire("json", json, json) : json \in Documents}

Unwired == UNCHANGED <<now, cache, fetches, inflight, storage, messages, tmp, call, attempts, outcome>>

\* json.encode("utf-8") (line 153).
EncodeUtf8 ==
    /\ wire.stage = "json"
    /\ wire' = Wire("utf8", wire.json, Utf8Encode(wire.value))
    /\ Unwired

\* base64.b64encode(...) (line 153).
EncodeBase64 ==
    /\ wire.stage = "utf8"
    /\ wire' = Wire("base64", wire.json, B64Encode(wire.value))
    /\ Unwired

\* .decode("utf-8") (line 155): the content given to put_message (line 156).
DecodeToContent ==
    /\ wire.stage = "base64"
    /\ wire' = Wire("content", wire.json, Utf8Decode(wire.value))
    /\ Unwired

\* The consumer decodes the base64 text it got from the queue; b64decode
\* rejects a text whose length is no multiple of four.
ConsumerBase64 ==
    /\ wire.stage = "content"
    /\ Len(wire.value) % 4 = 0
    /\ wire' = Wire("received_bytes", wire.json, B64Decode(wire.value))
    /\ Unwired

\* The consumer decodes the bytes as UTF-8.
ConsumerUtf8 ==
    /\ wire.stage = "received_bytes"
    /\ wire' = Wire("received", wire.json, Utf8Decode(wire.value))
    /\ Unwired

NextEncode ==
    \/ EncodeUtf8
    \/ EncodeBase64
    \/ DecodeToContent
    \/ ConsumerBase64
    \/ ConsumerUtf8

SpecEncode == InitEncode /\ [][NextEncode]_vars

(***************************************************************************)
(* C13: decoding a message's content as base64 and the bytes as UTF-8      *)
(* gives back exactly the JSON document that was encoded; the content is   *)
(* ASCII text that base64 decoding accepts.                                *)
(***************************************************************************)
C13_EncodingRoundTrip ==
    /\ wire.stage = "received" => wire.value = wire.json
    /\ wire.stage = "content" =>
          /\ Len(wire.value) % 4 = 0
          /\ \A i \in 1..Len(wire.value) : wire.value[i] < 128

\* A document of three code points of 4, 2 and 1 bytes (7 bytes, so the
\* base64 text is padded) has gone through both encodings and back.
C13_Witness ==
    /\ wire.stage = "received"
    /\ wire.json = <<128512, 233, 65>>
    /\ wire.value = wire.json

(***************************************************************************)
(* C14: every blob the client stages has a key made of the call's database *)
(* and table, a uuid and the file's name; the uuids of any two uploads, of *)
(* one call or of two calls under way together, for the same database,     *)
(* table and file name, differ; so every upload made a blob of its own and *)
(* none replaced another.                                                  *)
(***************************************************************************)
\* The uploads that have succeeded: call and item.
Uploads ==
    { u \in Calls \X (1..MaxItems) :
        /\ call[u[1]].kind \in {"files", "dataframe"}
        /\ u[2] <= Len(call[u[1]].blobs) }

NameOf(u) == call[u[1]].blobs[u[2]].url.blob_name

FileNameOf(u) ==
    IF call[u[1]].kind = "files" THEN call[u[1]].files[u[2]]
    ELSE call[u[1]].temp_file_path

C14_FreshBlobKeys ==
    /\ \A u \in Uploads :
          /\ NameOf(u).db = call[u[1]].props.database
          /\ NameOf(u).table = call[u[1]].props.table
          /\ NameOf(u).file = FileNameOf(u)
          /\ KeyOf(call[u[1]].blobs[u[2]].url) \in DOMAIN storage
    /\ \A u1, u2 \in Uploads :
          u1 # u2 => /\ NameOf(u1).guid # NameOf(u2).guid
                     /\ NameOf(u1) # NameOf(u2)
    /\ Cardinality(DOMAIN storage) = Cardinality(Uploads)

\* Two calls have staged MaxItems files each, all of the same name, for the
\* same table and in the same container.
C14_Witness ==
    /\ \A c \in Calls : call[c].kind = "files" /\ Len(call[c].blobs) = MaxItems
    /\ \A u1, u2 \in Uploads :
          /\ FileNameOf(u1) = FileNameOf(u2)
          /\ call[u1[1]].blobs[u1[2]].url.container = call[u2[1]].blobs[u2[2]].url.container
    /\ Cardinality(DOMAIN storage) = Cardinality(Calls) * MaxItems

(***************************************************************************)
(* C15: when ingest_from_files has returned for N files, it has made       *)
(* exactly N uploads and published exactly N messages; the message of file *)
(* i carries the URL of the blob that was created for file i, in the       *)
(* container and under the name chosen for it, and the size of the file's  *)
(* descriptor.  At any time, a message of the call is about a blob that is *)
(* in storage already.                                                     *)
(***************************************************************************)
MessagesFor(c, i) == { m \in MessagesOf(c) : m.item = i }

C15_OneUploadOneMessagePerFile ==
    \A c \in Calls :
        call[c].kind = "files" =>
            /\ \A m \in MessagesOf(c) :
                  /\ m.item <= Len(call[c].blobs)
                  /\ attempts[c].upload[m.item] >= 1
                  /\ IsStagedUrl(m.info.BlobPath)
                  /\ KeyOf(m.info.BlobPath) \in DOMAIN storage
            /\ call[c].pc = "done" =>
                  /\ Len(call[c].blobs) = Len(call[c].files)
                  /\ Cardinality(StagedBy(c)) = Len(call[c].files)
                  /\ Cardinality(MessagesOf(c)) = Len(call[c].files)
                  /\ \A i \in 1..Len(call[c].files) :
                        /\ attempts[c].upload[i] = 1
                        /\ attempts[c].publish[i] = 1
                        /\ Cardinality(MessagesFor(c, i)) = 1
                        /\ \A m \in MessagesFor(c, i) :
                              /\ m.info.BlobPath = call[c].blobs[i].url
                              /\ m.info.BlobPath.blob_name.guid = Uuid4(c, i)
                              /\ m.info.BlobPath.blob_name.file = call[c].files[i]
                              /\ storage[KeyOf(m.info.BlobPath)] = [file |-> call[c].files[i]]
                              /\ m.info.RawDataSize = SizeOf(call[c].files[i])

\* ingest_from_files has returned for MaxItems files that it staged in
\* different containers.
C15_Witness ==
    \E c \in Calls :
        /\ call[c].kind = "files"
        /\ call[c].pc = "done"
        /\ Len(call[c].files) = MaxItems
        /\ Cardinality(MessagesOf(c)) = MaxItems
        /\ Cardinality({ k.container : k \in StagedBy(c) }) > 1

(***************************************************************************)
(* C16: ingest_from_files publishes nothing before it has uploaded every   *)
(* file of the batch; when the upload of file k has failed, the call has   *)
(* published no message and never will, and the blobs of the files         *)
(* 1..k-1 are in storage.                                                  *)
(***************************************************************************)
C16_StagingPrecedesPublishing ==
    \A c \in Calls :
        call[c].kind = "files" =>
            /\ (MessagesOf(c) # {} \/ \E i \in DOMAIN attempts[c].publish :
                                          attempts[c].publish[i] > 0) =>
                  /\ Len(call[c].blobs) = Len(call[c].files)
                  /\ Cardinality(StagedBy(c)) = Len(call[c].files)
            /\ attempts[c].failure.stage = "stage" =>
                  /\ call[c].pc = "raised"
                  /\ MessagesOf(c) = {}
                  /\ Len(call[c].blobs) = attempts[c].failure.item - 1
                  /\ \A i \in 1..(attempts[c].failure.item - 1) :
                        KeyOf(call[c].blobs[i].url) \in DOMAIN storage

\* The upload of the last of MaxItems files has failed: the blobs of the
\* files before it are in storage and nothing is published.
C16_Witness ==
    \E c \in Calls :
        /\ call[c].kind = "files"
        /\ attempts[c].failure = [stage |-> "stage", item |-> MaxItems]
        /\ Cardinality(StagedBy(c)) = MaxItems - 1
        /\ MaxItems > 1
        /\ MessagesOf(c) = {}

(***************************************************************************)
(* C17: ingest_from_blobs publishes in the order of its input and stops at *)
(* the first put_message that fails: the items published are always the    *)
(* first ones of the list, after a failure at blob k they are 1..k-1,      *)
(* every message is about the blob at its place in the list, and no        *)
(* message ever leaves a queue or is added for a call that has failed.     *)
(***************************************************************************)
PublishedInOrder ==
    \A c \in Calls :
        /\ PublishedItems(c) = 1..Cardinality(MessagesOf(c))
        /\ \A m \in MessagesOf(c) : m.info.BlobPath = call[c].blobs[m.item].url
        /\ call[c].pc = "put_message" => PublishedItems(c) = 1..(call[c].idx - 1)
        /\ \A i \in DOMAIN attempts[c].publish :
              attempts[c].publish[i] > 0 => 1..(i - 1) \subseteq PublishedItems(c)
        /\ attempts[c].failure.stage = "publish" =>
              /\ call[c].pc = "raised"
              /\ PublishedItems(c) = 1..(attempts[c].failure.item - 1)

MessagesStay ==
    /\ messages \subseteq messages'
    /\ \A c \in Calls :
          attempts[c].failure.stage = "publish" =>
              { m \in messages' : m.call = c } = MessagesOf(c)

C17_StopsAtFirstPublishFailure == []PublishedInOrder /\ [][MessagesStay]_vars

\* The publish of the last of MaxItems blobs has failed: the messages of
\* the blobs before it are on the queues.
C17_Witness ==
    \E c \in Calls :
        /\ call[c].kind = "blobs"
        /\ Len(call[c].blobs) = MaxItems
        /\ attempts[c].failure = [stage |-> "publish", item |-> MaxItems]
        /\ PublishedItems(c) = 1..(MaxItems - 1)
        /\ MaxItems > 1

(***************************************************************************)
(* C18: ingest_from_files and ingest_from_dataframe call get_containers    *)
(* once, whatever the number of files, and every upload of the batch uses  *)
(* a container of the list that call returned, whatever has happened to    *)
(* the cache since; ingest_from_blobs calls get_ingestion_queues once and  *)
(* get_authorization_context once for each blob it comes to.               *)
(***************************************************************************)
C18_AccessorCallsPerBatch ==
    \A c \in Calls :
        LET accessed == attempts[c].accessed
            pc == call[c].pc
        IN  /\ accessed.get_containers <= 1
            /\ accessed.get_ingestion_queues <= 1
            /\ call[c].kind = "blobs" => accessed.get_containers = 0
            /\ (call[c].kind \in {"files", "dataframe"} /\ pc # "get_containers") =>
                  accessed.get_containers = 1
            /\ pc \in {"get_containers", "upload"} => accessed.get_ingestion_queues = 0
            /\ pc \in {"get_authorization_context", "put_message", "unlink", "done"} =>
                  accessed.get_ingestion_queues = 1
            /\ pc = "get_authorization_context" =>
                  accessed.get_authorization_context = call[c].idx - 1
            /\ pc = "put_message" => accessed.get_authorization_context = call[c].idx
            /\ pc \in {"unlink", "done"} =>
                  accessed.get_authorization_context = Len(call[c].blobs)
            /\ accessed.get_authorization_context <= Len(call[c].blobs)
            /\ call[c].kind \in {"files", "dataframe"} =>
                  \A i \in 1..Len(call[c].blobs) :
                      \E container_details \in call[c].containers :
                          /\ call[c].blobs[i].url.container = container_details.object_name
                          /\ call[c].blobs[i].url.sas_token = container_details.sas

\* ingest_from_files has returned for MaxItems files: one call of
\* get_containers, one of get_ingestion_queues, MaxItems of
\* get_authorization_context; the cache was refreshed after the call got
\* its containers, and all its blobs are in containers of the list it got.
C18_Witness ==
    \E c \in Calls :
        /\ call[c].kind = "files"
        /\ call[c].pc = "done"
        /\ Len(call[c].files) = MaxItems
        /\ attempts[c].accessed = [get_containers |-> 1, get_ingestion_queues |-> 1,
                                   get_authorization_context |-> MaxItems]
        /\ \A i \in 1..MaxItems : call[c].blobs[i].url.sas_token # cache.id
        /\ call[c].queues # QueuesOf(call[c].blobs[1].url.sas_token)

=============================================================================
